---- MODULE Spec2Model ----
(***************************************************************************)
(* Model of the HTU21D humidity/temperature sensor driver (htu21d.c).      *)
(*                                                                         *)
(* The driver is a sequential, blocking program.  Each call of a driver    *)
(* function runs as a chain of steps, one step per interaction with the    *)
(* outside world (i2c_param_config, i2c_driver_install, a bus transaction  *)
(* executed by i2c_master_cmd_begin, a vTaskDelay).  The outcome of every  *)
(* interaction is chosen by the environment.  `trace` records what the     *)
(* current (or last finished) call did on the bus, `ret` what it returned. *)
(*                                                                         *)
(* is_crc_valid is modelled twice from the same step operator: as a pure   *)
(* operator used by read_value, and as a loop executed one iteration per   *)
(* step under SpecCrc.                                                     *)
(***************************************************************************)
EXTENDS Integers, Sequences, FiniteSets, TLC

(***************************************************************************)
(* Bounds of the model.                                                    *)
(***************************************************************************)
\* bytes the environment may deliver or the caller may pass: ByteAt(0..MaxByteIdx)
MaxByteIdx == 3
\* I2C ports 0..MaxPort may be passed to htu21d_init
MaxPort == 1
\* htu21d_init is not called any more once this many command links are live
MaxLinks == 2
\* 16-bit words fed to is_crc_valid under SpecCrc: WordAt(0..MaxWordIdx)
MaxWordIdx == 40
\* tasks 1..MaxTask call read_value under SpecTasks
MaxTask == 2
\* temperatures passed to the conversion functions: TempAt(0..MaxTempIdx)
MaxTempIdx == 9
\* relative humidities passed to the conversion functions: RhAt(0..MaxRhIdx)
MaxRhIdx == 11
\* whole temperatures passed to celsius_to_fahrenheit: CelsiusAt(0..MaxCelsiusIdx)
MaxCelsiusIdx == 28

(***************************************************************************)
(* Program constants (htu21d.h as reproduced in README.md, htu21d.c).      *)
(***************************************************************************)
HTU21D_ADDR == 64
TRIGGER_TEMP_MEASURE_NOHOLD == 243
TRIGGER_HUMD_MEASURE_NOHOLD == 245
WRITE_USER_REG == 230
READ_USER_REG == 231
SOFT_RESET == 254

HTU21D_ERR_OK == 0
HTU21D_ERR_CONFIG == 1
HTU21D_ERR_INSTALL == 2
HTU21D_ERR_NOTFOUND == 3
HTU21D_ERR_INVALID_ARG == 4
HTU21D_ERR_FAIL == 5
HTU21D_ERR_INVALID_STATE == 6
HTU21D_ERR_TIMEOUT == 7

\* #define HTU21_RESET_TIME (15)
HTU21_RESET_TIME == 15
\* vTaskDelay(50 / portTICK_PERIOD_MS) in read_value
MEASURE_DELAY_MS == 50
\* 0b10000001, the resolution bits 7 and 0 of the user register
RESOLUTION_MASK == 129
\* 0xFFFC, the mask applied to the raw word by read_value
STATUS_MASK == 65532
\* (uint32_t)0x988000, the generator polynomial aligned to bit 23
CRC_DIVISOR == 9994240
\* number of iterations of the loop of is_crc_valid
CRC_ITERATIONS == 16

(***************************************************************************)
(* C integer operators on unsigned values.                                 *)
(***************************************************************************)
RECURSIVE And(_, _)
And(a, b) ==
    IF a = 0 \/ b = 0 THEN 0
    ELSE (a % 2) * (b % 2) + 2 * And(a \div 2, b \div 2)

RECURSIVE Or(_, _)
Or(a, b) ==
    IF a = 0 THEN b
    ELSE IF b = 0 THEN a
    ELSE (IF a % 2 = 1 \/ b % 2 = 1 THEN 1 ELSE 0) + 2 * Or(a \div 2, b \div 2)

RECURSIVE Xor(_, _)
Xor(a, b) ==
    IF a = 0 THEN b
    ELSE IF b = 0 THEN a
    ELSE ((a + b) % 2) + 2 * Xor(a \div 2, b \div 2)

\* a << n, for operands whose result stays below 2^31 (as all in this driver do)
Shl(a, n) == a * 2^n

\* conversion of x to an unsigned type of w bits (w = 8 or 16)
Truncate(x, w) == x % 2^w

\* a >> n
Shr(a, n) == a \div 2^n

(***************************************************************************)
(* is_crc_valid (htu21d.c:415-439).                                        *)
(***************************************************************************)
\* row = (uint32_t)value << 8; row |= crc;
CrcRowInit(value, crcByte) == Or(Shl(value, 8), crcByte)

\* variant: the bit tested is one position too low
CrcRowStep_WrongBit(r, d, n) ==
    IF And(r, Shl(1, 22 - n)) # 0 THEN Xor(r, d) ELSE r

\* body of the loop: if (row & (uint32_t)1 << (23 - i)) row ^= divisor;
CrcRowStep(r, d, n) ==
    IF And(r, Shl(1, 23 - n)) # 0 THEN Xor(r, d) ELSE r

\* variant: the divisor stays where it is
CrcDivisorStep_NoShift(d) == d

\* divisor >>= 1;
CrcDivisorStep(d) == Shr(d, 1)

\* the for loop, from iteration n on; yields the final row
RECURSIVE CrcLoop(_, _, _)
CrcLoop(r, d, n) ==
    IF n < CRC_ITERATIONS
    THEN CrcLoop(CrcRowStep(r, d, n), CrcDivisorStep(d), n + 1)
    ELSE r

\* return (row == 0);
is_crc_valid(value, crcByte) ==
    CrcLoop(CrcRowInit(value, crcByte), CRC_DIVISOR, 0) = 0

(***************************************************************************)
(* State.                                                                  *)
(***************************************************************************)
VARIABLES
    _port,      \* static i2c_port_t _port: the process-wide bus handle
    userReg,    \* the sensor's user register (sensor-side state)
    links,      \* command links created by i2c_cmd_link_create and not deleted
    pc,         \* where the running call stands; "done" when it has returned to the
                \* application, "idle" when the application is about to call again
    op,         \* the driver function called by the application ("none" when idle)
    arg,        \* its argument (port, value, resolution or command; 0 if none)
    wval,       \* parameter `value` of the running htu21d_write_user_register
    msb, lsb, crc,  \* the three bytes read_value received from the sensor
    ret,        \* value returned by the call, when done
    trace,      \* what the call did so far: configuration, transactions, delays, log lines
    prevSet,    \* resolution passed to the call before this one, if that call was an
                \* htu21d_set_resolution whose transactions all succeeded; else -1
    installed,  \* the ports whose I2C driver is installed (bus-side state)
    prevInit,   \* port passed to the call before this one, if that call was an
                \* htu21d_init that failed; else -1
    fret,       \* value returned by a call that returns a float, when done
    results,    \* the results i2c_master_cmd_begin may return (fixed by the
                \* initial state)
    conv,       \* SpecConv: the conversion function called last, its arguments and
                \* what it returned
    tpc,        \* SpecTasks: where each task stands in its read_value
    tcmd,       \* SpecTasks: the command each task passed to its read_value
    tgot,       \* SpecTasks: the measurement each task read back
    pending,    \* SpecTasks: the measurement the sensor holds ready: the command
                \* that triggered it and the task that sent that command
    crcValue, crcCrc,   \* SpecCrc: the arguments of the running is_crc_valid
    row, divisor, i,    \* SpecCrc: its locals
    crcWord, crcFlip    \* SpecCrc: the word the arguments were made from, and the
                        \* bit of (word, checksum) that was flipped (0: none)

driverVars ==
    <<_port, userReg, links, pc, op, arg, wval, msb, lsb, crc, ret, trace, prevSet,
      installed, prevInit, fret, results>>
crcVars == <<crcValue, crcCrc, row, divisor, i, crcWord, crcFlip>>
convVars == <<conv>>
taskVars == <<tpc, tcmd, tgot, pending>>
vars == <<driverVars, crcVars, convVars, taskVars>>

(***************************************************************************)
(* The environment: values and outcomes it can produce.                    *)
(***************************************************************************)
\* sample bytes 0x00, 0x55, 0xAA, 0xFF, 0x54, ...: every combination of bits 7 and 0,
\* and of the two low bits
ByteAt(n) == (n * 85) % 256
Bytes == {ByteAt(n) : n \in 0..MaxByteIdx}

Ports == 0..MaxPort

\* results documented for i2c_master_cmd_begin (htu21d.c:228-233)
EspErr == {"ESP_OK", "ESP_ERR_INVALID_ARG", "ESP_FAIL", "ESP_ERR_INVALID_STATE",
           "ESP_ERR_TIMEOUT"}

\* outcome of building and executing one transaction: i2c_cmd_link_create
\* returned NULL, or the result of i2c_master_cmd_begin
TxnOutcomes == {"NULL"} \cup results

\* the documented results and one more esp_err_t value, which has no case
\* label in the driver
AnyErr == EspErr \cup {"ESP_ERR_NO_MEM"}

\* commands read_value is called with
Commands == {TRIGGER_TEMP_MEASURE_NOHOLD, TRIGGER_HUMD_MEASURE_NOHOLD}

(***************************************************************************)
(* Events of the trace.                                                    *)
(***************************************************************************)
Ev(k, p, f, r, t) == [kind |-> k, port |-> p, frame |-> f, result |-> r, ms |-> t]

ConfigEv(p, r) == Ev("config", p, <<>>, r, 0)
InstallEv(p, r) == Ev("install", p, <<>>, r, 0)
TxnEv(p, f, r) == Ev("txn", p, f, r, 0)
DelayEv(t) == Ev("delay", 0, <<>>, "", t)
LogEv(m) == Ev("log", 0, <<>>, m, 0)

NoMemEv == LogEv("Not enough dynamic memory")
CrcLogEv == LogEv("CRC is invalid.")

\* what is queued on a command link
Start == [op |-> "start", arg |-> 0]
Stop == [op |-> "stop", arg |-> 0]
WriteByte(b) == [op |-> "write", arg |-> b]
\* i2c_master_read_byte(cmd, &x, ack): ack 0x00 acknowledges, 0x01 does not
ReadByte(ack) == [op |-> "read", arg |-> ack]

\* (HTU21D_ADDR << 1) | I2C_MASTER_WRITE and (HTU21D_ADDR << 1) | I2C_MASTER_READ
AddrWrite == Truncate(Or(Shl(HTU21D_ADDR, 1), 0), 8)
AddrRead == Truncate(Or(Shl(HTU21D_ADDR, 1), 1), 8)

ProbeFrame == <<Start, WriteByte(AddrWrite), Stop>>
CommandFrame(c) == <<Start, WriteByte(AddrWrite), WriteByte(c), Stop>>
WriteRegFrame(v) == <<Start, WriteByte(AddrWrite), WriteByte(WRITE_USER_REG), WriteByte(v), Stop>>
ReadRegFrame == <<Start, WriteByte(AddrRead), ReadByte(1), Stop>>
\* variant: the last byte read is acknowledged as well
ReadValueFrame_AllAcked ==
    <<Start, WriteByte(AddrRead), ReadByte(0), ReadByte(0), ReadByte(0), Stop>>

ReadValueFrame == <<Start, WriteByte(AddrRead), ReadByte(0), ReadByte(0), ReadByte(1), Stop>>

\* every step of the call succeeded: nothing but successful configuration,
\* installation and transactions, and delays
AllOk(tr) ==
    \A k \in 1..Len(tr) :
        \/ tr[k].kind = "delay"
        \/ tr[k].kind \in {"config", "install", "txn"} /\ tr[k].result = "ESP_OK"

(***************************************************************************)
(* The sensor.                                                             *)
(***************************************************************************)
\* A soft reset puts the resolution back to its default (bits 7 and 0 clear);
\* the heater bit is kept (htu21d.c:218-223, README.md:59-69).
SensorReset(v) == And(v, 255 - RESOLUTION_MASK)

\* The checksum the sensor appends to a 16-bit word: CRC-8 with generator
\* polynomial x^8 + x^5 + x^4 + 1 (0x31 below x^8), computed by a shift register
\* fed with the bits of the word from bit n-1 down (htu21d.c:421).
RECURSIVE SensorCrcShift(_, _, _)
SensorCrcShift(reg, word, n) ==
    IF n = 0 THEN reg
    ELSE LET top == ((reg \div 128) + ((word \div 2^(n - 1)) % 2)) % 2
             shifted == (reg * 2) % 256
         IN  SensorCrcShift(IF top = 1 THEN Xor(shifted, 49) ELSE shifted, word, n - 1)

SensorChecksum(word) == SensorCrcShift(0, word, 16)

(***************************************************************************)
(* Initial state: no call has run; the sensor's register holds any byte.   *)
(***************************************************************************)
\* a float is kept as the exact fraction <<numerator, denominator>> in lowest
\* terms with a positive denominator; the rounding of the C float type is left
\* out. NoFloat: no float was returned.
NoFloat == <<0, 0>>

\* no conversion function has been called
NoConversion == [fn |-> "none", args |-> <<>>, kind |-> "none", val |-> NoFloat]

\* the tasks of SpecTasks
Tasks == 1..MaxTask

\* no measurement
NoMeasurement == [command |-> 0, by |-> 0]

\* no task has called read_value and the sensor holds no measurement
TasksIdle ==
    /\ tpc = [t \in Tasks |-> "idle"]
    /\ tcmd = [t \in Tasks |-> 0]
    /\ tgot = [t \in Tasks |-> NoMeasurement]
    /\ pending = NoMeasurement

CrcIdle ==
    /\ crcValue = 0 /\ crcCrc = 0 /\ row = 0 /\ divisor = 0
    /\ i = CRC_ITERATIONS /\ crcWord = 0 /\ crcFlip = 0

InitState ==
    /\ _port = 0
    /\ userReg \in Bytes
    /\ links = 0
    /\ pc = "idle" /\ op = "none" /\ arg = 0 /\ wval = 0
    /\ msb = 0 /\ lsb = 0 /\ crc = 0
    /\ ret = 0
    /\ trace = <<>>
    /\ prevSet = -1
    /\ installed = {}
    /\ prevInit = -1
    /\ fret = NoFloat
    /\ CrcIdle
    /\ conv = NoConversion
    /\ TasksIdle

\* the bus returns the documented results
Init == InitState /\ results = EspErr

\* the bus may return a result that is not among the documented ones
InitAny == InitState /\ results = AnyErr

(***************************************************************************)
(* Entering and leaving a call.                                            *)
(***************************************************************************)
\* the application calls fn(a)
Begin(fn, a) ==
    /\ pc = "idle"
    /\ op' = fn
    /\ arg' = a
    /\ UNCHANGED <<prevSet, prevInit, msb, lsb, crc>>

\* a step inside a call
Within(label) ==
    /\ pc = label
    /\ UNCHANGED <<op, arg, prevSet, prevInit>>

\* the call returns v to the application
Finish(v) ==
    /\ pc' = "done"
    /\ ret' = v
    /\ UNCHANGED fret

\* the call goes on at label
Goto(label) ==
    /\ pc' = label
    /\ ret' = 0
    /\ UNCHANGED fret

\* switch (ret) of htu21d_soft_reset and htu21d_write_user_register: the case labels
SwitchCases == {"ESP_ERR_INVALID_ARG", "ESP_FAIL", "ESP_ERR_INVALID_STATE", "ESP_ERR_TIMEOUT"}

\* variant: the timeout case returns the generic failure status
SwitchStatus_TimeoutAsFail(r) ==
    CASE r = "ESP_ERR_INVALID_ARG" -> HTU21D_ERR_INVALID_ARG
      [] r = "ESP_FAIL" -> HTU21D_ERR_FAIL
      [] r = "ESP_ERR_INVALID_STATE" -> HTU21D_ERR_INVALID_STATE
      [] r = "ESP_ERR_TIMEOUT" -> HTU21D_ERR_FAIL
      [] OTHER -> HTU21D_ERR_OK

\* lines 344-358: the status the switch of htu21d_write_user_register returns; a
\* result without a case label falls through to the code after the switch,
\* which returns HTU21D_ERR_OK
SwitchStatus(r) ==
    CASE r = "ESP_ERR_INVALID_ARG" -> HTU21D_ERR_INVALID_ARG
      [] r = "ESP_FAIL" -> HTU21D_ERR_FAIL
      [] r = "ESP_ERR_INVALID_STATE" -> HTU21D_ERR_INVALID_STATE
      [] r = "ESP_ERR_TIMEOUT" -> HTU21D_ERR_TIMEOUT
      [] OTHER -> HTU21D_ERR_OK

(***************************************************************************)
(* htu21d_soft_reset (htu21d.c:235-278).                                   *)
(***************************************************************************)
\* variant: the timeout case of the soft reset returns the generic failure status
SoftResetStatus_TimeoutAsFail(r) ==
    CASE r = "ESP_ERR_INVALID_ARG" -> HTU21D_ERR_INVALID_ARG
      [] r = "ESP_FAIL" -> HTU21D_ERR_FAIL
      [] r = "ESP_ERR_INVALID_STATE" -> HTU21D_ERR_INVALID_STATE
      [] r = "ESP_ERR_TIMEOUT" -> HTU21D_ERR_FAIL
      [] OTHER -> HTU21D_ERR_OK

\* lines 254-277: the status the switch of htu21d_soft_reset returns; a result
\* without a case label falls through to the delay and HTU21D_ERR_OK
SoftResetStatus(r) ==
    CASE r = "ESP_ERR_INVALID_ARG" -> HTU21D_ERR_INVALID_ARG
      [] r = "ESP_FAIL" -> HTU21D_ERR_FAIL
      [] r = "ESP_ERR_INVALID_STATE" -> HTU21D_ERR_INVALID_STATE
      [] r = "ESP_ERR_TIMEOUT" -> HTU21D_ERR_TIMEOUT
      [] OTHER -> HTU21D_ERR_OK

\* lines 240-271, appended to the trace `base`: build the link, execute the
\* transaction on _port, delete the link, switch on the result
SoftResetTxn(base) ==
    \E r \in TxnOutcomes :
        IF r = "NULL"
        THEN /\ trace' = Append(base, NoMemEv)
             /\ Finish(HTU21D_ERR_FAIL)
             /\ UNCHANGED userReg
        ELSE /\ trace' = Append(base, TxnEv(_port, CommandFrame(SOFT_RESET), r))
             /\ userReg' = IF r = "ESP_OK" THEN SensorReset(userReg) ELSE userReg
             /\ IF r \in SwitchCases
                THEN Finish(SoftResetStatus(r))
                ELSE Goto("soft_reset_delay")

htu21d_soft_reset ==
    /\ Begin("htu21d_soft_reset", 0)
    /\ SoftResetTxn(<<>>)
    /\ wval' = 0
    /\ UNCHANGED <<_port, links, installed, crcVars, convVars, taskVars, results>>

\* line 87 of htu21d_init: ret = htu21d_soft_reset(); init returns what it returned
soft_reset_txn ==
    /\ Within("soft_reset_txn")
    /\ SoftResetTxn(trace)
    /\ UNCHANGED <<_port, links, wval, msb, lsb, crc, installed, crcVars, convVars, taskVars, results>>

\* variant: returns HTU21D_ERR_OK without waiting
soft_reset_delay_Skipped ==
    /\ Within("soft_reset_delay")
    /\ Finish(HTU21D_ERR_OK)
    /\ UNCHANGED <<_port, userReg, links, wval, msb, lsb, crc, trace, installed, crcVars, convVars, taskVars, results>>

\* lines 273-277: vTaskDelay(pdMS_TO_TICKS(HTU21_RESET_TIME)); return HTU21D_ERR_OK
soft_reset_delay ==
    /\ Within("soft_reset_delay")
    /\ trace' = Append(trace, DelayEv(HTU21_RESET_TIME))
    /\ Finish(HTU21D_ERR_OK)
    /\ UNCHANGED <<_port, userReg, links, wval, msb, lsb, crc, installed, crcVars, convVars, taskVars, results>>

(***************************************************************************)
(* htu21d_init (htu21d.c:43-94).                                           *)
(***************************************************************************)
\* variant: the handle is written once the configuration has succeeded
htu21d_init_PortAfterConfig(port) ==
    /\ links < MaxLinks
    /\ Begin("htu21d_init", port)
    /\ \E r \in EspErr :
        /\ trace' = <<ConfigEv(port, r)>>
        /\ _port' = IF r = "ESP_OK" THEN port ELSE _port
        /\ IF r # "ESP_OK" THEN Finish(HTU21D_ERR_CONFIG) ELSE Goto("init_install")
    /\ wval' = 0
    /\ UNCHANGED <<userReg, links, installed, crcVars, convVars, taskVars, results>>

\* lines 46-60: _port = port; i2c_param_config
htu21d_init(port) ==
    /\ links < MaxLinks
    /\ Begin("htu21d_init", port)
    /\ _port' = port
    /\ \E r \in EspErr :
        /\ trace' = <<ConfigEv(port, r)>>
        /\ IF r # "ESP_OK" THEN Finish(HTU21D_ERR_CONFIG) ELSE Goto("init_install")
    /\ wval' = 0
    /\ UNCHANGED <<userReg, links, installed, crcVars, convVars, taskVars, results>>

\* what i2c_driver_install(port, ...) may return: it installs the driver of a
\* port once, and fails while that driver is installed
InstallOutcomes(port) ==
    IF port \in installed THEN {"ESP_FAIL"} ELSE EspErr

\* the installed drivers after i2c_driver_install(port, ...) returned r; nothing
\* in the driver uninstalls one (there is no call of i2c_driver_delete)
Installed(port, r) ==
    IF r = "ESP_OK" THEN installed \cup {port} ELSE installed

\* variant: the result of i2c_driver_install is not checked
init_install_NoCheck ==
    /\ Within("init_install")
    /\ \E r \in InstallOutcomes(arg) :
        /\ trace' = Append(trace, InstallEv(arg, r))
        /\ installed' = Installed(arg, r)
        /\ Goto("init_probe")
    /\ UNCHANGED <<_port, userReg, links, wval, msb, lsb, crc, crcVars, convVars, taskVars, results>>

\* lines 63-67: i2c_driver_install
init_install ==
    /\ Within("init_install")
    /\ \E r \in InstallOutcomes(arg) :
        /\ trace' = Append(trace, InstallEv(arg, r))
        /\ installed' = Installed(arg, r)
        /\ IF r # "ESP_OK" THEN Finish(HTU21D_ERR_INSTALL) ELSE Goto("init_probe")
    /\ UNCHANGED <<_port, userReg, links, wval, msb, lsb, crc, crcVars, convVars, taskVars, results>>

\* variant: the soft reset is sent whatever the probe returned
init_probe_NoCheck ==
    /\ Within("init_probe")
    /\ \E r \in TxnOutcomes :
        IF r = "NULL"
        THEN /\ trace' = Append(trace, NoMemEv)
             /\ Finish(HTU21D_ERR_FAIL)
             /\ UNCHANGED links
        ELSE /\ trace' = Append(trace, TxnEv(arg, ProbeFrame, r))
             /\ links' = links + 1
             /\ Goto("soft_reset_txn")
    /\ UNCHANGED <<_port, userReg, wval, msb, lsb, crc, installed, crcVars, convVars, taskVars, results>>

\* lines 70-83: the presence probe; the link it creates is not deleted on any path
init_probe ==
    /\ Within("init_probe")
    /\ \E r \in TxnOutcomes :
        IF r = "NULL"
        THEN /\ trace' = Append(trace, NoMemEv)
             /\ Finish(HTU21D_ERR_FAIL)
             /\ UNCHANGED links
        ELSE /\ trace' = Append(trace, TxnEv(arg, ProbeFrame, r))
             /\ links' = links + 1
             /\ IF r # "ESP_OK" THEN Finish(HTU21D_ERR_NOTFOUND) ELSE Goto("soft_reset_txn")
    /\ UNCHANGED <<_port, userReg, wval, msb, lsb, crc, installed, crcVars, convVars, taskVars, results>>

(***************************************************************************)
(* htu21d_write_user_register (htu21d.c:324-359).                          *)
(***************************************************************************)
WriteRegTxn(base, value) ==
    \E r \in TxnOutcomes :
        IF r = "NULL"
        THEN /\ trace' = Append(base, NoMemEv)
             /\ Finish(HTU21D_ERR_FAIL)
             /\ UNCHANGED userReg
        ELSE /\ trace' = Append(base, TxnEv(_port, WriteRegFrame(value), r))
             /\ userReg' = IF r = "ESP_OK" THEN value ELSE userReg
             /\ Finish(SwitchStatus(r))

htu21d_write_user_register(value) ==
    /\ Begin("htu21d_write_user_register", value)
    /\ wval' = value
    /\ WriteRegTxn(<<>>, value)
    /\ UNCHANGED <<_port, links, installed, crcVars, convVars, taskVars, results>>

\* line 212 of htu21d_set_resolution: return htu21d_write_user_register(reg_value)
write_user_register_txn ==
    /\ Within("write_user_register_txn")
    /\ WriteRegTxn(trace, wval)
    /\ UNCHANGED <<_port, links, wval, msb, lsb, crc, installed, crcVars, convVars, taskVars, results>>

(***************************************************************************)
(* htu21d_read_user_register (htu21d.c:280-322) and its callers            *)
(* htu21d_get_resolution (195-199) and htu21d_set_resolution (201-213).    *)
(***************************************************************************)
\* variant: the resolution bits of the register are replaced and its other
\* bits kept
SetResolutionValue_KeepOthers(reg_value, resolution) ==
    Or(And(reg_value, 255 - RESOLUTION_MASK), And(resolution, RESOLUTION_MASK))

\* lines 205-210: reg_value &= 0b10000001; resolution &= 0b10000001;
\* reg_value |= resolution
SetResolutionValue(reg_value, resolution) ==
    Or(And(reg_value, RESOLUTION_MASK), And(resolution, RESOLUTION_MASK))

\* line 198: return reg_value & 0b10000001
GetResolutionValue(reg_value) == And(reg_value, RESOLUTION_MASK)

\* htu21d_read_user_register returns x to the function fn(a) that called it
ReadRegReturn(fn, a, x) ==
    CASE fn = "htu21d_set_resolution" ->
            /\ Goto("write_user_register_txn")
            /\ wval' = SetResolutionValue(x, a)
      [] fn = "htu21d_get_resolution" ->
            /\ Finish(GetResolutionValue(x))
            /\ wval' = 0
      [] OTHER ->
            /\ Finish(x)
            /\ wval' = 0

\* variant: htu21d_set_resolution gives up when the command transaction fails
ReadRegCmd_Abort(fn, a) ==
    \E r \in TxnOutcomes :
        IF r = "NULL"
        THEN /\ trace' = <<NoMemEv>>
             /\ ReadRegReturn(fn, a, 0)
        ELSE /\ trace' = <<TxnEv(_port, CommandFrame(READ_USER_REG), r)>>
             /\ IF r = "ESP_OK"
                THEN Goto("read_user_register_read") /\ wval' = 0
                ELSE IF fn = "htu21d_set_resolution"
                THEN Finish(HTU21D_ERR_FAIL) /\ wval' = 0
                ELSE ReadRegReturn(fn, a, 0)

\* variant: the answer is read whatever the command transaction returned
ReadRegCmd_NoCheck(fn, a) ==
    \E r \in TxnOutcomes :
        IF r = "NULL"
        THEN /\ trace' = <<NoMemEv>>
             /\ ReadRegReturn(fn, a, 0)
        ELSE /\ trace' = <<TxnEv(_port, CommandFrame(READ_USER_REG), r)>>
             /\ Goto("read_user_register_read") /\ wval' = 0

\* lines 285-300: send READ_USER_REG
ReadRegCmd(fn, a) ==
    \E r \in TxnOutcomes :
        IF r = "NULL"
        THEN /\ trace' = <<NoMemEv>>
             /\ ReadRegReturn(fn, a, 0)
        ELSE /\ trace' = <<TxnEv(_port, CommandFrame(READ_USER_REG), r)>>
             /\ IF r # "ESP_OK"
                THEN ReadRegReturn(fn, a, 0)
                ELSE Goto("read_user_register_read") /\ wval' = 0

htu21d_read_user_register ==
    /\ Begin("htu21d_read_user_register", 0)
    /\ ReadRegCmd("htu21d_read_user_register", 0)
    /\ UNCHANGED <<_port, userReg, links, installed, crcVars, convVars, taskVars, results>>

htu21d_get_resolution ==
    /\ Begin("htu21d_get_resolution", 0)
    /\ ReadRegCmd("htu21d_get_resolution", 0)
    /\ UNCHANGED <<_port, userReg, links, installed, crcVars, convVars, taskVars, results>>

htu21d_set_resolution(resolution) ==
    /\ Begin("htu21d_set_resolution", resolution)
    /\ ReadRegCmd("htu21d_set_resolution", resolution)
    /\ UNCHANGED <<_port, userReg, links, installed, crcVars, convVars, taskVars, results>>

\* variant: a read transaction that failed is executed a second time
read_user_register_read_Retry ==
    /\ Within("read_user_register_read")
    /\ \E r \in TxnOutcomes :
        IF r = "NULL"
        THEN /\ trace' = Append(trace, NoMemEv)
             /\ ReadRegReturn(op, arg, 0)
        ELSE IF r = "ESP_OK"
        THEN /\ trace' = Append(trace, TxnEv(_port, ReadRegFrame, r))
             /\ ReadRegReturn(op, arg, userReg)
        ELSE \E again \in EspErr :
             /\ trace' = trace \o <<TxnEv(_port, ReadRegFrame, r),
                                    TxnEv(_port, ReadRegFrame, again)>>
             /\ ReadRegReturn(op, arg, IF again # "ESP_OK" THEN 0 ELSE userReg)
    /\ UNCHANGED <<_port, userReg, links, msb, lsb, crc, installed, crcVars, convVars, taskVars, results>>

\* lines 303-321: read one byte, not acknowledged; the sensor answers with its register
read_user_register_read ==
    /\ Within("read_user_register_read")
    /\ \E r \in TxnOutcomes :
        IF r = "NULL"
        THEN /\ trace' = Append(trace, NoMemEv)
             /\ ReadRegReturn(op, arg, 0)
        ELSE /\ trace' = Append(trace, TxnEv(_port, ReadRegFrame, r))
             /\ ReadRegReturn(op, arg, IF r # "ESP_OK" THEN 0 ELSE userReg)
    /\ UNCHANGED <<_port, userReg, links, msb, lsb, crc, installed, crcVars, convVars, taskVars, results>>

(***************************************************************************)
(* read_value (htu21d.c:361-412).                                          *)
(***************************************************************************)
\* line 407: raw_value = ((uint16_t) msb << 8) | (uint16_t) lsb
RawValue(m, l) == Truncate(Or(Shl(m, 8), l), 16)

\* variant: the status bits are not masked off
MaskStatus_None(raw_value) == raw_value

\* line 411: return raw_value & 0xFFFC
MaskStatus(raw_value) == And(raw_value, STATUS_MASK)

\* variant: a checksum mismatch makes the read fail
ReadValueResult_FailOnCrc(m, l, c) ==
    IF is_crc_valid(RawValue(m, l), c) THEN MaskStatus(RawValue(m, l)) ELSE 0

\* lines 407-411: the value returned for the bytes received
ReadValueResult(m, l, c) == MaskStatus(RawValue(m, l))

\* the words the sensor may deliver
Words == {RawValue(m, l) : m \in Bytes, l \in Bytes}

\* the checksum bytes that may arrive after the word w: the checksum the sensor
\* computes, and any sample byte (a corrupted transfer)
ChecksumsAfter == [w \in Words |-> Bytes \cup {SensorChecksum(w)}]

\* the checksum the sensor appends to each of these words
SensorChecksums == [w \in Words |-> SensorChecksum(w)]

\* line 408: is_crc_valid for every word and checksum byte that may arrive:
\* the checksum bytes it reports valid for the word
CrcValid == [w \in Words |-> {c \in ChecksumsAfter[w] : is_crc_valid(w, c)}]

\* lines 408-410: what is logged for the bytes received
ReadValueLog(m, l, c) ==
    IF c \in CrcValid[RawValue(m, l)] THEN <<>> ELSE <<CrcLogEv>>

\* greatest common divisor of two naturals
RECURSIVE Gcd(_, _)
Gcd(a, b) == IF b = 0 THEN a ELSE Gcd(b, a % b)

Abs(x) == IF x < 0 THEN -x ELSE x

\* the fraction n / d (d > 0) in lowest terms
Fraction(n, d) == <<n \div Gcd(Abs(n), d), d \div Gcd(Abs(n), d)>>

\* lines 105, 144: return -999
READ_FAILED == Fraction(-999, 1)

\* line 109: (raw_temperature * 175.72 / 65536.0) - 46.85
Temperature(raw) == Fraction(raw * 17572 - 4685 * 65536, 100 * 65536)

\* line 148: (raw_humidity * 125.0 / 65536.0) - 6.0
Humidity(raw) == Fraction(raw * 125 - 6 * 65536, 65536)

\* variant: the raw value is converted whatever it is
ReadTemperatureResult_NoSentinel(raw_temperature) == Temperature(raw_temperature)

\* lines 104-109: what htu21d_read_temperature returns for the value of read_value
ReadTemperatureResult(raw_temperature) ==
    IF raw_temperature = 0 THEN READ_FAILED ELSE Temperature(raw_temperature)

\* lines 143-148: what htu21d_read_humidity returns for the value of read_value
ReadHumidityResult(raw_humidity) ==
    IF raw_humidity = 0 THEN READ_FAILED ELSE Humidity(raw_humidity)

\* read_value returns x: to the application, or to htu21d_read_temperature or
\* htu21d_read_humidity, which return the converted value to the application
ReadValueReturn(x) ==
    /\ pc' = "done"
    /\ IF op' = "htu21d_read_temperature"
       THEN ret' = 0 /\ fret' = ReadTemperatureResult(x)
       ELSE IF op' = "htu21d_read_humidity"
       THEN ret' = 0 /\ fret' = ReadHumidityResult(x)
       ELSE ret' = x /\ UNCHANGED fret

\* variant: the result of the trigger transaction is not checked
read_value_NoCheck(command) ==
    /\ Begin("read_value", command)
    /\ \E r \in TxnOutcomes :
        IF r = "NULL"
        THEN /\ trace' = <<NoMemEv>>
             /\ Finish(0)
        ELSE /\ trace' = <<TxnEv(_port, CommandFrame(command), r)>>
             /\ Goto("read_value_delay")
    /\ wval' = 0
    /\ UNCHANGED <<_port, userReg, links, installed, crcVars, convVars, taskVars, results>>

\* lines 366-381: send the trigger command, in the call fn(a) of the application
ReadValueCmd(fn, a, command) ==
    /\ Begin(fn, a)
    /\ \E r \in TxnOutcomes :
        IF r = "NULL"
        THEN /\ trace' = <<NoMemEv>>
             /\ ReadValueReturn(0)
        ELSE /\ trace' = <<TxnEv(_port, CommandFrame(command), r)>>
             /\ IF r # "ESP_OK" THEN ReadValueReturn(0) ELSE Goto("read_value_delay")
    /\ wval' = 0
    /\ UNCHANGED <<_port, userReg, links, installed, crcVars, convVars, taskVars, results>>

\* line 361: read_value(command) called on its own
read_value(command) == ReadValueCmd("read_value", command, command)

\* line 104: uint16_t raw_temperature = read_value(TRIGGER_TEMP_MEASURE_NOHOLD)
htu21d_read_temperature ==
    ReadValueCmd("htu21d_read_temperature", 0, TRIGGER_TEMP_MEASURE_NOHOLD)

\* line 143: uint16_t raw_humidity = read_value(TRIGGER_HUMD_MEASURE_NOHOLD)
htu21d_read_humidity ==
    ReadValueCmd("htu21d_read_humidity", 0, TRIGGER_HUMD_MEASURE_NOHOLD)

\* variant: the answer is read right after the trigger
read_value_delay_Skipped ==
    /\ Within("read_value_delay")
    /\ Goto("read_value_read")
    /\ UNCHANGED <<_port, userReg, links, wval, msb, lsb, crc, trace, installed, crcVars, convVars, taskVars, results>>

\* line 384: vTaskDelay(50 / portTICK_PERIOD_MS)
read_value_delay ==
    /\ Within("read_value_delay")
    /\ trace' = Append(trace, DelayEv(MEASURE_DELAY_MS))
    /\ Goto("read_value_read")
    /\ UNCHANGED <<_port, userReg, links, wval, msb, lsb, crc, installed, crcVars, convVars, taskVars, results>>

\* the checksum bytes that may arrive after the data bytes m, l
ChecksumBytes(m, l) == ChecksumsAfter[RawValue(m, l)]

\* lines 387-411: read msb, lsb, crc; check the CRC; mask and return
read_value_read ==
    /\ Within("read_value_read")
    /\ \E r \in TxnOutcomes :
        IF r = "NULL"
        THEN /\ trace' = Append(trace, NoMemEv)
             /\ ReadValueReturn(0)
             /\ UNCHANGED <<msb, lsb, crc>>
        ELSE IF r # "ESP_OK"
        THEN /\ trace' = Append(trace, TxnEv(_port, ReadValueFrame, r))
             /\ ReadValueReturn(0)
             /\ UNCHANGED <<msb, lsb, crc>>
        ELSE \E m \in Bytes, l \in Bytes :
             \E c \in ChecksumBytes(m, l) :
                /\ msb' = m /\ lsb' = l /\ crc' = c
                /\ trace' = Append(trace, TxnEv(_port, ReadValueFrame, r)) \o ReadValueLog(m, l, c)
                /\ ReadValueReturn(ReadValueResult(m, l, c))
    /\ UNCHANGED <<_port, userReg, links, wval, installed, crcVars, convVars, taskVars, results>>

(***************************************************************************)
(* The application (htu21_example.c): it takes the result of the call and  *)
(* goes on to its next call.                                               *)
(***************************************************************************)
app_continue ==
    /\ pc = "done"
    /\ pc' = "idle"
    /\ prevSet' = IF op = "htu21d_set_resolution" /\ AllOk(trace) THEN arg ELSE -1
    /\ prevInit' = IF op = "htu21d_init" /\ ret # HTU21D_ERR_OK THEN arg ELSE -1
    /\ op' = "none" /\ arg' = 0 /\ wval' = 0
    /\ msb' = 0 /\ lsb' = 0 /\ crc' = 0
    /\ ret' = 0
    /\ fret' = NoFloat
    /\ trace' = <<>>
    /\ UNCHANGED <<_port, userReg, links, installed, crcVars, convVars, taskVars, results>>

(***************************************************************************)
(* The driver: one application task calling the driver's functions.        *)
(***************************************************************************)
Next ==
    \/ \E port \in Ports : htu21d_init(port)
    \/ init_install
    \/ init_probe
    \/ htu21d_soft_reset
    \/ soft_reset_txn
    \/ soft_reset_delay
    \/ htu21d_read_user_register
    \/ htu21d_get_resolution
    \/ \E resolution \in Bytes : htu21d_set_resolution(resolution)
    \/ read_user_register_read
    \/ \E value \in Bytes : htu21d_write_user_register(value)
    \/ write_user_register_txn
    \/ \E command \in Commands : read_value(command)
    \/ read_value_delay
    \/ read_value_read
    \/ app_continue

Spec == Init /\ [][Next]_vars

(***************************************************************************)
(* Soft reset and register write on a bus that may return any esp_err_t.   *)
(***************************************************************************)
NextAny ==
    \/ htu21d_soft_reset
    \/ soft_reset_delay
    \/ \E value \in Bytes : htu21d_write_user_register(value)
    \/ app_continue

SpecAny == InitAny /\ [][NextAny]_vars

(***************************************************************************)
(* The application of the example: it reads temperature and humidity.      *)
(***************************************************************************)
NextMeasure ==
    \/ htu21d_read_temperature
    \/ htu21d_read_humidity
    \/ read_value_delay
    \/ read_value_read
    \/ app_continue

SpecMeasure == Init /\ [][NextMeasure]_vars

(***************************************************************************)
(* is_crc_valid run one loop iteration per step, on words with their       *)
(* checksum and on every single-bit corruption of them.                    *)
(***************************************************************************)
\* sample 16-bit words, spread over the whole range
WordAt(n) == (n * 40503) % 65536
CrcWords == {WordAt(n) : n \in 0..MaxWordIdx}

\* the 24 transmitted bits: the word followed by the checksum of the sensor
Transmitted(word) == word * 256 + SensorChecksum(word)

\* bits with bit k (1..24, counted from the least significant) inverted; k = 0: none
FlipBit(bits, k) ==
    IF k = 0 THEN bits
    ELSE IF (bits \div 2^(k - 1)) % 2 = 1 THEN bits - 2^(k - 1) ELSE bits + 2^(k - 1)

\* lines 415-423: entry of is_crc_valid(value, crc)
crc_call(word, k) ==
    /\ pc = "idle"
    /\ pc' = "is_crc_valid"
    /\ crcWord' = word
    /\ crcFlip' = k
    /\ crcValue' = FlipBit(Transmitted(word), k) \div 256
    /\ crcCrc' = FlipBit(Transmitted(word), k) % 256
    /\ row' = CrcRowInit(crcValue', crcCrc')
    /\ divisor' = CRC_DIVISOR
    /\ i' = 0
    /\ ret' = 0
    /\ UNCHANGED <<_port, userReg, links, op, arg, wval, msb, lsb, crc, trace, prevSet,
                   installed, prevInit, fret, convVars, taskVars, results>>

\* lines 425-435: one iteration of the loop
crc_iteration ==
    /\ pc = "is_crc_valid"
    /\ i < CRC_ITERATIONS
    /\ row' = CrcRowStep(row, divisor, i)
    /\ divisor' = CrcDivisorStep(divisor)
    /\ i' = i + 1
    /\ UNCHANGED <<crcValue, crcCrc, crcWord, crcFlip, driverVars, convVars, taskVars, results>>

\* line 438: the value is_crc_valid returns once the loop is over
CrcResult == row = 0

\* line 438: return (row == 0); ret is 1 for true
crc_return ==
    /\ pc = "is_crc_valid"
    /\ i = CRC_ITERATIONS
    /\ pc' = "idle"
    /\ ret' = IF CrcResult THEN 1 ELSE 0
    /\ crcValue' = 0 /\ crcCrc' = 0 /\ row' = 0 /\ divisor' = 0
    /\ i' = CRC_ITERATIONS /\ crcWord' = 0 /\ crcFlip' = 0
    /\ UNCHANGED <<_port, userReg, links, op, arg, wval, msb, lsb, crc, trace, prevSet,
                   installed, prevInit, fret, convVars, taskVars, results>>

InitCrc ==
    /\ _port = 0
    /\ userReg = 0
    /\ links = 0
    /\ pc = "idle" /\ op = "none" /\ arg = 0 /\ wval = 0
    /\ msb = 0 /\ lsb = 0 /\ crc = 0
    /\ ret = 0
    /\ trace = <<>>
    /\ prevSet = -1
    /\ installed = {}
    /\ prevInit = -1
    /\ fret = NoFloat
    /\ CrcIdle
    /\ conv = NoConversion
    /\ TasksIdle
    /\ results = EspErr

NextCrc ==
    \/ \E word \in CrcWords, k \in 0..24 : crc_call(word, k)
    \/ crc_iteration
    \/ crc_return

SpecCrc == InitCrc /\ [][NextCrc]_vars

(***************************************************************************)
(* The conversion functions (htu21d.c:160-193, 446-468), called on sample  *)
(* temperatures and humidities.  A finite float is an exact fraction where *)
(* the arithmetic is rational; where log10 or pow comes in, only the class *)
(* of the value is kept: "nan", "-inf", "+inf", "neg", "zero", "pos", or   *)
(* "finite" for a finite value whose sign is not followed.                 *)
(***************************************************************************)
\* sample temperatures (deg C) from the sensor's range: -40, -25, -10, ...
TempAt(n) == Fraction(15 * n - 40, 1)
Temperatures == {TempAt(n) : n \in 0..MaxTempIdx}

\* sample relative humidities (%RH), from below zero up: -10, 0, 10, ...
RhAt(n) == Fraction(10 * n - 10, 1)
Humidities == {RhAt(n) : n \in 0..MaxRhIdx}

\* sum and product of two fractions
FAdd(x, y) == Fraction(x[1] * y[2] + y[1] * x[2], x[2] * y[2])
FMul(x, y) == Fraction(x[1] * y[1], x[2] * y[2])

\* the class of a fraction
Class(x) == IF x[1] < 0 THEN "neg" ELSE IF x[1] = 0 THEN "zero" ELSE "pos"

\* lines 17-20
HTU21_TEMPERATURE_COEFFICIENT == Fraction(-15, 100)
HTU21_CONSTANT_A == Fraction(81332, 10000)
HTU21_CONSTANT_B == Fraction(176239, 100)
HTU21_CONSTANT_C == Fraction(23566, 100)

\* a conversion returned the number val; NoFloat when the number is not followed
Number(val) == [kind |-> "number", val |-> val]
\* a conversion returned a NaN or an infinity
NotANumber == [kind |-> "nan", val |-> NoFloat]
Infinite == [kind |-> "inf", val |-> NoFloat]

\* sample whole temperatures (deg C) in steps of 5: -40, -35, ..., 0, ..., 100
CelsiusAt(n) == Fraction(5 * n - 40, 1)
Celsius == {CelsiusAt(n) : n \in 0..MaxCelsiusIdx}

\* variant: the factor is 5/9
CelsiusToFahrenheit_Inverted(celsius_degrees) ==
    Number(FAdd(FMul(celsius_degrees, Fraction(5, 9)), Fraction(32, 1)))

\* line 448: (celsius_degrees * 9.0F / 5.0F) + 32.0F
CelsiusToFahrenheit(celsius_degrees) ==
    Number(FAdd(FMul(celsius_degrees, Fraction(9, 5)), Fraction(32, 1)))

\* lines 466-467: relative_humidity + (25.0F - temperature) * HTU21_TEMPERATURE_COEFFICIENT
CompensatedHumidity(temperature, relative_humidity) ==
    Number(FAdd(relative_humidity,
                FMul(FAdd(Fraction(25, 1), FMul(Fraction(-1, 1), temperature)),
                     HTU21_TEMPERATURE_COEFFICIENT)))

\* HTU21_CONSTANT_B / x for x of class c (IEEE 754: a finite positive number
\* divided by zero is +inf)
BOver(c) ==
    CASE c = "zero" -> "+inf"
      [] c \in {"+inf", "-inf"} -> "zero"
      [] OTHER -> c

\* HTU21_CONSTANT_A - x for x of class c
AMinus(c) ==
    CASE c = "+inf" -> "-inf"
      [] c = "-inf" -> "+inf"
      [] c \in {"neg", "zero"} -> "pos"
      [] c = "nan" -> "nan"
      [] OTHER -> "finite"

\* pow(10, x) for x of class c
Pow10(c) ==
    CASE c = "-inf" -> "zero"
      [] c = "+inf" -> "+inf"
      [] c = "nan" -> "nan"
      [] OTHER -> "pos"

\* line 162: pow(10, HTU21_CONSTANT_A - HTU21_CONSTANT_B / (temperature + HTU21_CONSTANT_C))
PartialPressureClass(temperature) ==
    Pow10(AMinus(BOver(Class(FAdd(temperature, HTU21_CONSTANT_C)))))

\* x * y / 100.0F for a finite x of class c and y of class d
TimesOver100(c, d) ==
    CASE d = "nan" -> "nan"
      [] c = "zero" /\ d = "+inf" -> "nan"
      [] c = "zero" \/ d = "zero" -> "zero"
      [] d = "+inf" -> IF c = "pos" THEN "+inf" ELSE "-inf"
      [] OTHER -> c

\* log10(x) for x of class c: a NaN below zero, -inf at zero
Log10(c) ==
    CASE c \in {"nan", "neg", "-inf"} -> "nan"
      [] c = "zero" -> "-inf"
      [] c = "+inf" -> "+inf"
      [] OTHER -> "finite"

\* - HTU21_CONSTANT_B / (x - HTU21_CONSTANT_A) - HTU21_CONSTANT_C for x of class
\* c.  For a finite x the divisor is taken to be non-zero: it is zero only when
\* relative_humidity * partial_pressure / 100 equals 10^A, which needs a
\* relative humidity above 100 * 10^4 at the sample temperatures.
DewPointOf(c) ==
    CASE c = "nan" -> NotANumber
      [] c \in {"-inf", "+inf"} -> Number(FMul(Fraction(-1, 1), HTU21_CONSTANT_C))
      [] OTHER -> Number(NoFloat)

\* lines 188-192: what htu21d_compute_dew_point returns
DewPoint(temperature, relative_humidity) ==
    DewPointOf(Log10(TimesOver100(Class(relative_humidity),
                                  PartialPressureClass(temperature))))

\* what htu21d_compute_partial_pressure returns
PartialPressure(temperature) ==
    CASE PartialPressureClass(temperature) = "nan" -> NotANumber
      [] PartialPressureClass(temperature) = "+inf" -> Infinite
      [] PartialPressureClass(temperature) = "zero" -> Number(Fraction(0, 1))
      [] OTHER -> Number(NoFloat)

\* the application calls the conversion function fn with args and gets result
Convert(fn, args, result) ==
    /\ conv' = [fn |-> fn, args |-> args, kind |-> result.kind, val |-> result.val]
    /\ UNCHANGED <<driverVars, crcVars, taskVars>>

htu21d_compute_partial_pressure(temperature) ==
    Convert("htu21d_compute_partial_pressure", <<temperature>>,
            PartialPressure(temperature))

htu21d_compute_dew_point(temperature, relative_humidity) ==
    Convert("htu21d_compute_dew_point", <<temperature, relative_humidity>>,
            DewPoint(temperature, relative_humidity))

celsius_to_fahrenheit(celsius_degrees) ==
    Convert("celsius_to_fahrenheit", <<celsius_degrees>>,
            CelsiusToFahrenheit(celsius_degrees))

htu21_compute_compensated_humidity(temperature, relative_humidity) ==
    Convert("htu21_compute_compensated_humidity", <<temperature, relative_humidity>>,
            CompensatedHumidity(temperature, relative_humidity))

NextConv ==
    \/ \E t \in Temperatures : htu21d_compute_partial_pressure(t)
    \/ \E t \in Temperatures, rh \in Humidities : htu21d_compute_dew_point(t, rh)
    \/ \E t \in Temperatures \cup Celsius : celsius_to_fahrenheit(t)
    \/ \E t \in Temperatures, rh \in Humidities :
            htu21_compute_compensated_humidity(t, rh)

SpecConv == Init /\ [][NextConv]_vars

(***************************************************************************)
(* read_value (htu21d.c:361-412) called by several tasks that share the    *)
(* bus and the sensor.  The sensor holds the measurement of the trigger    *)
(* command it acknowledged last, until it is read.                         *)
(***************************************************************************)
\* task t is at label
TaskAt(t, label) == tpc[t] = label

\* task t goes on at label
TaskGoto(t, label) == tpc' = [tpc EXCEPT ![t] = label]

\* task t is between its trigger transaction and its read transaction
Measuring(t) == tpc[t] \in {"read_value_delay", "read_value_read"}

\* variant: a task sends its trigger only while no other task is between its
\* trigger and its read
task_read_value_Locked(t, command) ==
    /\ TaskAt(t, "idle")
    /\ \A u \in Tasks \ {t} : ~Measuring(u)
    /\ tcmd' = [tcmd EXCEPT ![t] = command]
    /\ \E r \in TxnOutcomes :
        IF r = "ESP_OK"
        THEN /\ pending' = [command |-> command, by |-> t]
             /\ TaskGoto(t, "read_value_delay")
        ELSE /\ UNCHANGED pending
             /\ TaskGoto(t, "done")
    /\ UNCHANGED <<tgot, driverVars, crcVars, convVars>>

\* lines 366-381, run by task t: send the trigger command; return 0 if it fails
task_read_value(t, command) ==
    /\ TaskAt(t, "idle")
    /\ tcmd' = [tcmd EXCEPT ![t] = command]
    /\ \E r \in TxnOutcomes :
        IF r = "ESP_OK"
        THEN /\ pending' = [command |-> command, by |-> t]
             /\ TaskGoto(t, "read_value_delay")
        ELSE /\ UNCHANGED pending
             /\ TaskGoto(t, "done")
    /\ UNCHANGED <<tgot, driverVars, crcVars, convVars>>

\* line 384, run by task t: vTaskDelay(50 / portTICK_PERIOD_MS)
task_delay(t) ==
    /\ TaskAt(t, "read_value_delay")
    /\ TaskGoto(t, "read_value_read")
    /\ UNCHANGED <<tcmd, tgot, pending, driverVars, crcVars, convVars>>

\* lines 387-411, run by task t: read the measurement the sensor holds; the
\* transaction succeeds only if the sensor holds one
task_read(t) ==
    /\ TaskAt(t, "read_value_read")
    /\ \E r \in TxnOutcomes :
        IF r = "ESP_OK" /\ pending # NoMeasurement
        THEN /\ tgot' = [tgot EXCEPT ![t] = pending]
             /\ pending' = NoMeasurement
        ELSE UNCHANGED <<tgot, pending>>
    /\ TaskGoto(t, "done")
    /\ UNCHANGED <<tcmd, driverVars, crcVars, convVars>>

\* task t takes the result and goes on to its next call
task_continue(t) ==
    /\ TaskAt(t, "done")
    /\ TaskGoto(t, "idle")
    /\ tcmd' = [tcmd EXCEPT ![t] = 0]
    /\ tgot' = [tgot EXCEPT ![t] = NoMeasurement]
    /\ UNCHANGED <<pending, driverVars, crcVars, convVars>>

NextTasks ==
    \/ \E t \in Tasks, command \in Commands : task_read_value(t, command)
    \/ \E t \in Tasks : task_delay(t)
    \/ \E t \in Tasks : task_read(t)
    \/ \E t \in Tasks : task_continue(t)

SpecTasks == Init /\ [][NextTasks]_vars

(***************************************************************************)
(* Properties.                                                             *)
(***************************************************************************)

\* C1: a word with the checksum of the generator polynomial x^8+x^5+x^4+1 is
\* reported valid, that checksum is the only byte reported valid for the word,
\* and the word and checksum with any one of their 24 bits flipped are
\* reported invalid.
C1_CrcDetectsSingleBitErrors ==
    /\ is_crc_valid(crcValue, crcCrc) <=> (crcFlip = 0)
    /\ (pc = "is_crc_valid" /\ i = CRC_ITERATIONS) =>
        /\ CrcResult <=> (crcFlip = 0)
        /\ crcFlip = 0 =>
            \A c \in 0..255 : is_crc_valid(crcWord, c) <=> (c = SensorChecksum(crcWord))

\* C1 witness: the check of a word with one data bit flipped has reported invalid
C1_Witness ==
    /\ pc = "is_crc_valid"
    /\ i = CRC_ITERATIONS
    /\ crcFlip = 17
    /\ crcWord = WordAt(1)
    /\ ~CrcResult

(***************************************************************************)
(* Vocabulary of the driver properties.                                    *)
(***************************************************************************)
Done(fn) == pc = "done" /\ op = fn

IsTxn(e) == e.kind = "txn"
IsDelay(e) == e.kind = "delay"

\* r & 0x81 for a byte r, written arithmetically
ResolutionBits(r) == (r \div 128) * 128 + (r % 2)

\* the word made of two bytes, first byte high
Word(m, l) == m * 256 + l

\* the transaction carries the byte b as a written byte after the address
Carries(e, b) ==
    IsTxn(e) /\ \E k \in 2..Len(e.frame) : e.frame[k] = WriteByte(b) /\ k > 2

\* the transaction reads bytes from the sensor
ReadsBytes(e) == IsTxn(e) /\ \E k \in 1..Len(e.frame) : e.frame[k].op = "read"

\* C2: after a successful htu21d_set_resolution(r), a successful
\* htu21d_get_resolution returns r & 0x81, whatever the register held before.
C2_ResolutionRoundTrip ==
    (Done("htu21d_get_resolution") /\ AllOk(trace) /\ prevSet # -1)
        => ret = ResolutionBits(prevSet)

\* C3: in read_value, when the trigger transaction cannot be set up or fails,
\* the call has returned 0 and has done nothing else: no delay, no read.
C3_TriggerFailureReturnsZero ==
    (op = "read_value" /\ Len(trace) >= 1
        /\ (trace[1] = NoMemEv \/ (IsTxn(trace[1]) /\ trace[1].result # "ESP_OK")))
        => /\ pc = "done"
           /\ ret = 0
           /\ Len(trace) = 1

C3_Witness ==
    /\ Done("read_value")
    /\ ret = 0
    /\ trace = <<TxnEv(_port, CommandFrame(TRIGGER_TEMP_MEASURE_NOHOLD), "ESP_ERR_TIMEOUT")>>

\* C4: in read_value the read transaction is the third event, after the
\* successful trigger transaction and exactly one 50 ms delay, with no bus
\* traffic in between; there is never a second delay.
C4_TriggerDelayRead ==
    op = "read_value" =>
        /\ \A k \in 1..Len(trace) :
            ReadsBytes(trace[k]) =>
                /\ k = 3
                /\ trace[1] = TxnEv(_port, CommandFrame(arg), "ESP_OK")
                /\ trace[2] = DelayEv(MEASURE_DELAY_MS)
        /\ Cardinality({k \in 1..Len(trace) : IsDelay(trace[k])}) <= 1
        /\ pc = "read_value_read" => Len(trace) = 2 /\ IsDelay(trace[2])

C4_Witness ==
    /\ Done("read_value")
    /\ Len(trace) = 3
    /\ ReadsBytes(trace[3])
    /\ trace[3].result = "ESP_OK"

\* C5: when both transactions succeed, read_value returns the big-endian word
\* of the two data bytes with its two low bits cleared; every value it returns
\* has its two low bits clear.
C5_ReturnsMaskedWord ==
    Done("read_value") =>
        /\ ret % 4 = 0
        /\ (Len(trace) >= 3 /\ IsTxn(trace[3]) /\ trace[3].result = "ESP_OK")
            => ret = Word(msb, lsb) - (Word(msb, lsb) % 4)

C5_Witness ==
    /\ Done("read_value")
    /\ msb = 85 /\ lsb = 255
    /\ ret = 22012

\* C6: a checksum mismatch is logged and changes nothing else: the value
\* returned for the data bytes is the one returned with the right checksum.
C6_CrcMismatchOnlyLogged ==
    (Done("read_value") /\ Len(trace) >= 3 /\ IsTxn(trace[3]) /\ trace[3].result = "ESP_OK")
        => /\ ret = Word(msb, lsb) - (Word(msb, lsb) % 4)
           /\ (crc # SensorChecksums[Word(msb, lsb)]) <=> (Len(trace) = 4 /\ trace[4] = CrcLogEv)
           /\ (crc = SensorChecksums[Word(msb, lsb)]) <=> (Len(trace) = 3)

C6_Witness ==
    /\ Done("read_value")
    /\ Len(trace) = 4
    /\ trace[4] = CrcLogEv
    /\ crc # SensorChecksums[Word(msb, lsb)]
    /\ ret # 0

\* the soft-reset transaction on the current bus handle, with result r
SoftResetEv(r) == TxnEv(_port, CommandFrame(SOFT_RESET), r)

\* the status documented for each result of i2c_master_cmd_begin
\* (htu21d.c:228-233, README.md:161-168)
DocumentedStatus(r) ==
    CASE r = "ESP_OK" -> 0
      [] r = "ESP_ERR_INVALID_ARG" -> 4
      [] r = "ESP_FAIL" -> 5
      [] r = "ESP_ERR_INVALID_STATE" -> 6
      [] r = "ESP_ERR_TIMEOUT" -> 7

\* C7: when the presence probe of htu21d_init fails, the call has returned
\* not-found (3) and the probe is the last thing it did: no soft-reset command
\* was sent and no delay was made.
C7_ProbeFailureSkipsSoftReset ==
    (op = "htu21d_init" /\ Len(trace) >= 3 /\ IsTxn(trace[3]) /\ trace[3].result # "ESP_OK")
        => /\ pc = "done"
           /\ ret = 3
           /\ Len(trace) = 3
           /\ \A k \in 1..Len(trace) : ~Carries(trace[k], SOFT_RESET) /\ ~IsDelay(trace[k])

C7_Witness ==
    /\ Done("htu21d_init")
    /\ Len(trace) = 3
    /\ trace[3] = TxnEv(_port, ProbeFrame, "ESP_FAIL")
    /\ ret = HTU21D_ERR_NOTFOUND

\* C8: htu21d_init configures, installs, probes and soft-resets in this order
\* and stops at the first step that fails: 1 for configuration, 2 for
\* installation, 3 for the probe, the soft reset's own status for the soft
\* reset; it returns 0 exactly when all four steps succeeded.
C8_InitStepsInOrder ==
    op = "htu21d_init" =>
        /\ Len(trace) >= 1 /\ Len(trace) <= 5
        /\ trace[1].kind = "config"
        /\ Len(trace) >= 2 => trace[2].kind = "install" /\ trace[1].result = "ESP_OK"
        /\ Len(trace) >= 3 =>
            /\ trace[3] = NoMemEv \/ (IsTxn(trace[3]) /\ trace[3].frame = ProbeFrame)
            /\ trace[2].result = "ESP_OK"
        /\ Len(trace) >= 4 =>
            /\ trace[4] = NoMemEv \/ (IsTxn(trace[4]) /\ trace[4].frame = CommandFrame(SOFT_RESET))
            /\ trace[3].result = "ESP_OK"
        /\ Len(trace) = 5 => trace[5] = DelayEv(HTU21_RESET_TIME) /\ trace[4].result = "ESP_OK"
        /\ trace[1].result # "ESP_OK" => Done("htu21d_init") /\ ret = 1 /\ Len(trace) = 1
        /\ (Len(trace) >= 2 /\ trace[2].result # "ESP_OK")
            => Done("htu21d_init") /\ ret = 2 /\ Len(trace) = 2
        /\ (Len(trace) >= 3 /\ IsTxn(trace[3]) /\ trace[3].result # "ESP_OK")
            => Done("htu21d_init") /\ ret = 3 /\ Len(trace) = 3
        /\ (Len(trace) >= 4 /\ IsTxn(trace[4]) /\ trace[4].result # "ESP_OK")
            => Done("htu21d_init") /\ ret = DocumentedStatus(trace[4].result) /\ Len(trace) = 4
        /\ pc = "done" => (ret = 0 <=> (Len(trace) = 5 /\ AllOk(trace)))

C8_Witness ==
    /\ Done("htu21d_init")
    /\ ret = HTU21D_ERR_OK
    /\ Len(trace) = 5
    /\ trace[4] = SoftResetEv("ESP_OK")

\* the part of the trace made by htu21d_soft_reset, called directly or by htu21d_init
SoftResetPart ==
    IF op = "htu21d_init" THEN SubSeq(trace, 4, Len(trace)) ELSE trace

\* C9: htu21d_soft_reset returns OK only after its transaction succeeded and
\* exactly one 15 ms delay followed it; when the transaction fails, the call
\* returns the error with no delay.
C9_SoftResetDelay ==
    (op \in {"htu21d_soft_reset", "htu21d_init"} /\ Len(SoftResetPart) >= 1) =>
        /\ (pc = "done" /\ ret = 0) => SoftResetPart = <<SoftResetEv("ESP_OK"), DelayEv(15)>>
        /\ (IsTxn(SoftResetPart[1]) /\ SoftResetPart[1].result # "ESP_OK") =>
            /\ pc = "done"
            /\ ret = DocumentedStatus(SoftResetPart[1].result)
            /\ ret # 0
            /\ Len(SoftResetPart) = 1
        /\ Cardinality({k \in 1..Len(SoftResetPart) : IsDelay(SoftResetPart[k])}) <= 1

C9_Witness ==
    /\ Done("htu21d_soft_reset")
    /\ ret = HTU21D_ERR_OK
    /\ trace = <<SoftResetEv("ESP_OK"), DelayEv(HTU21_RESET_TIME)>>

\* C10: htu21d_write_user_register returns 4 for invalid-argument, 5 for a
\* generic failure, 6 for invalid-state, 7 for a timeout and 0 for success of
\* its transaction; the five statuses are pairwise distinct.
C10_WriteStatusMapping ==
    /\ Cardinality({HTU21D_ERR_OK, HTU21D_ERR_INVALID_ARG, HTU21D_ERR_FAIL,
                    HTU21D_ERR_INVALID_STATE, HTU21D_ERR_TIMEOUT}) = 5
    /\ (Done("htu21d_write_user_register") /\ IsTxn(trace[1])) =>
        /\ Len(trace) = 1
        /\ trace[1].frame = WriteRegFrame(arg)
        /\ ret = DocumentedStatus(trace[1].result)
        /\ ret = CASE trace[1].result = "ESP_ERR_INVALID_ARG" -> HTU21D_ERR_INVALID_ARG
                   [] trace[1].result = "ESP_FAIL" -> HTU21D_ERR_FAIL
                   [] trace[1].result = "ESP_ERR_INVALID_STATE" -> HTU21D_ERR_INVALID_STATE
                   [] trace[1].result = "ESP_ERR_TIMEOUT" -> HTU21D_ERR_TIMEOUT
                   [] trace[1].result = "ESP_OK" -> HTU21D_ERR_OK

C10_Witness ==
    /\ Done("htu21d_write_user_register")
    /\ trace = <<TxnEv(_port, WriteRegFrame(170), "ESP_ERR_TIMEOUT")>>
    /\ ret = HTU21D_ERR_TIMEOUT

\* bits 6..1 of a byte: everything outside the resolution field
OutsideResolution(v) == (v % 128) \div 2

\* C11: a successful htu21d_set_resolution leaves bits 6..1 of the sensor's
\* user register as they were before the call.
C11_SetResolutionPreservesOtherBits ==
    [][(op = "htu21d_set_resolution" /\ pc = "write_user_register_txn"
            /\ pc' = "done" /\ AllOk(trace'))
        => OutsideResolution(userReg') = OutsideResolution(userReg)]_vars

\* the call made a transaction that did not succeed, or got no command link
ReadFailed ==
    \E k \in 1..Len(trace) :
        \/ IsTxn(trace[k]) /\ trace[k].result # "ESP_OK"
        \/ trace[k] = NoMemEv

\* the values the conversions give for the words that can be received
Conversions ==
    {Temperature(MaskStatus(RawValue(m, l))) : m \in Bytes, l \in Bytes}
        \cup {Humidity(MaskStatus(RawValue(m, l))) : m \in Bytes, l \in Bytes}

\* C12: htu21d_read_temperature and htu21d_read_humidity return -999 when a
\* transaction of the read did not succeed, and -999 is no converted raw value.
C12_FailedReadReturnsSentinel ==
    ((Done("htu21d_read_temperature") \/ Done("htu21d_read_humidity")) /\ ReadFailed)
        => /\ fret = <<-999, 1>>
           /\ fret \notin Conversions

\* C12 witness: htu21d_read_humidity has returned -999 after its trigger went
\* through and its read transaction timed out
C12_Witness ==
    /\ Done("htu21d_read_humidity")
    /\ Len(trace) = 3
    /\ trace[3].result = "ESP_ERR_TIMEOUT"
    /\ fret = <<-999, 1>>
\* the call received a word with a valid checksum whose masked value is 0
DeliveredZero ==
    /\ Len(trace) = 3
    /\ ~ReadFailed
    /\ is_crc_valid(RawValue(msb, lsb), crc)
    /\ MaskStatus(RawValue(msb, lsb)) = 0

\* C13: when the sensor delivers a word whose masked value is 0,
\* htu21d_read_temperature returns -46.85 and htu21d_read_humidity returns -6.0.
C13_ZeroWordConverts ==
    /\ (Done("htu21d_read_temperature") /\ DeliveredZero) => fret = Temperature(0)
    /\ (Done("htu21d_read_humidity") /\ DeliveredZero) => fret = Humidity(0)
\* in the call, the bus and the sensor responded successfully: the configuration
\* and every transaction succeeded, no command link was refused, and the bus
\* driver of the port is installed
BusAndSensorRespond ==
    /\ \A k \in 1..Len(trace) :
        /\ trace[k].kind \in {"config", "txn"} => trace[k].result = "ESP_OK"
        /\ trace[k] # NoMemEv
    /\ arg \in installed

\* C14: an htu21d_init on the port of a failed htu21d_init returns OK when the
\* bus and the sensor respond successfully.
C14_FailedInitRecoverable ==
    (Done("htu21d_init") /\ prevInit = arg /\ BusAndSensorRespond)
        => ret = HTU21D_ERR_OK
\* the transactions the call has executed so far
Txns == {k \in 1..Len(trace) : IsTxn(trace[k])}

\* the most transactions one call of fn may execute
TxnLimit(fn) ==
    CASE fn \in {"read_value", "htu21d_read_user_register"} -> 2
      [] fn \in {"htu21d_write_user_register", "htu21d_soft_reset"} -> 1
      [] fn = "htu21d_set_resolution" -> 3
      [] fn = "htu21d_init" -> 2
      [] OTHER -> Cardinality(Txns)

\* C15: at every point of a call, whatever the transport results, the call has
\* executed no more transactions than its limit (2 for read_value and
\* htu21d_read_user_register, 1 for htu21d_write_user_register and
\* htu21d_soft_reset, 3 for htu21d_set_resolution, 2 for htu21d_init), and no
\* transaction that failed has been executed a second time.
C15_NoRetry ==
    /\ Cardinality(Txns) <= TxnLimit(op)
    /\ \A j \in Txns, k \in Txns :
        (j < k /\ trace[j].result # "ESP_OK") => trace[k].frame # trace[j].frame

\* C15 witness: an htu21d_set_resolution has returned after three transactions
\* of which the second timed out
C15_Witness ==
    /\ Done("htu21d_set_resolution")
    /\ Cardinality(Txns) = 3
    /\ trace[2].result = "ESP_ERR_TIMEOUT"
\* the step is the entry of a call of htu21d_init
InitEntry == pc = "idle" /\ op' = "htu21d_init"

\* C17: the entry of htu21d_init writes its port argument to _port before any
\* of its steps can fail, no other step of any function changes _port, and
\* every transaction a step executes is executed on the value _port has then.
C17_PortIsLastInitArgument ==
    [][/\ InitEntry => _port' = arg'
       /\ ~InitEntry => _port' = _port
       /\ \A k \in (Len(trace) + 1)..Len(trace') :
            IsTxn(trace'[k]) => trace'[k].port = _port']_vars

\* C17 witness: read_value has executed its transactions on port 1, which an
\* htu21d_init that failed before it installed the bus driver has written
C17_Witness ==
    /\ Done("read_value")
    /\ _port = 1
    /\ 1 \notin installed
    /\ Cardinality(Txns) = 2
    /\ \A k \in Txns : trace[k].port = 1
\* the entries of the frame that read a byte
ReadEntries(e) == {k \in 1..Len(e.frame) : e.frame[k].op = "read"}

\* a write transaction carrying the read-register command
IsReadRegCommand(e) == Carries(e, 231) /\ ReadEntries(e) = {}

\* a read transaction of exactly one byte, which is not acknowledged
IsOneByteNackRead(e) ==
    /\ IsTxn(e)
    /\ Cardinality(ReadEntries(e)) = 1
    /\ \A k \in ReadEntries(e) : e.frame[k].arg = 1

\* C18: htu21d_read_user_register executes a write transaction carrying the
\* read-register command and then a read transaction of one byte that is not
\* acknowledged; it returns 0 when either of them does not succeed, executes no
\* read transaction when the command did not succeed, and otherwise returns
\* the byte of the sensor's register as it is.
C18_ReadRegisterTwoPhase ==
    Done("htu21d_read_user_register") =>
        /\ Len(trace) \in {1, 2}
        /\ Cardinality(Txns) = Len(trace) \/ (trace[Len(trace)] = NoMemEv /\ ret = 0)
        /\ 1 \in Txns =>
            /\ IsReadRegCommand(trace[1])
            /\ trace[1].result # "ESP_OK" => (Len(trace) = 1 /\ ret = 0)
            /\ trace[1].result = "ESP_OK" => Len(trace) = 2
        /\ 2 \in Txns =>
            /\ IsOneByteNackRead(trace[2])
            /\ trace[2].result # "ESP_OK" => ret = 0
            /\ trace[2].result = "ESP_OK" => ret = userReg

\* C18 witness: both phases succeeded and the call returned the register's 0xFF
C18_Witness ==
    /\ Done("htu21d_read_user_register")
    /\ Cardinality(Txns) = 2
    /\ AllOk(trace)
    /\ userReg = 255
    /\ ret = 255
\* the result of the single transaction of a completed call
TxnResult == trace[1].result

\* C19: for each transport result of its single transaction, htu21d_soft_reset
\* returns the status htu21d_write_user_register returns for that result, and
\* htu21d_write_user_register returns the status htu21d_soft_reset returns.
C19_SoftResetMapsLikeWrite ==
    /\ (Done("htu21d_soft_reset") /\ 1 \in Txns) => ret = SwitchStatus(TxnResult)
    /\ (Done("htu21d_write_user_register") /\ 1 \in Txns) => ret = SoftResetStatus(TxnResult)
    /\ \A r \in EspErr : SoftResetStatus(r) = SwitchStatus(r)

\* C19 witness: a soft reset whose transaction timed out has returned
\* HTU21D_ERR_TIMEOUT
C19_Witness ==
    /\ Done("htu21d_soft_reset")
    /\ 1 \in Txns
    /\ TxnResult = "ESP_ERR_TIMEOUT"
    /\ ret = 7
\* the relative humidity passed to the dew-point computation is not above zero
DewPointOutsideDomain ==
    /\ conv.fn = "htu21d_compute_dew_point"
    /\ conv.args[2][1] <= 0

\* C20: for a relative humidity of zero or below htu21d_compute_dew_point does
\* not return a number, and every other call of a conversion function does.
C20_DewPointDomainError ==
    /\ DewPointOutsideDomain => conv.kind # "number"
    /\ (conv.fn # "none" /\ ~DewPointOutsideDomain) => conv.kind = "number"
\* C16: the driver has no mutual exclusion: whenever a task is between its
\* trigger command and its read transaction, any other task that calls
\* read_value can send its own trigger command.
C16_NoMutualExclusion ==
    \A a \in Tasks, b \in Tasks :
        (a # b /\ Measuring(a) /\ TaskAt(b, "idle"))
            => \A command \in Commands : ENABLED task_read_value(b, command)

\* C16 witness: a task has read back the measurement of another task's
\* trigger, for a command other than its own
C16_Witness ==
    \E t \in Tasks :
        /\ TaskAt(t, "done")
        /\ tgot[t] # NoMeasurement
        /\ tgot[t].by # t
        /\ tgot[t].command # tcmd[t]
\* the argument of the conversion function called last
ConvArg == conv.args[1]

\* C21: celsius_to_fahrenheit returns 32 for 0 and 212 for 100, and for every
\* whole Celsius input c that is a multiple of 5 it returns the whole number
\* (c / 5) * 9 + 32.
C21_CelsiusToFahrenheit ==
    conv.fn = "celsius_to_fahrenheit" =>
        /\ conv.kind = "number"
        /\ ConvArg = <<0, 1>> => conv.val = <<32, 1>>
        /\ ConvArg = <<100, 1>> => conv.val = <<212, 1>>
        /\ (ConvArg[2] = 1 /\ ConvArg[1] % 5 = 0)
            => conv.val = <<(ConvArg[1] \div 5) * 9 + 32, 1>>

\* C21 witness: celsius_to_fahrenheit(100) has returned 212
C21_Witness ==
    /\ conv.fn = "celsius_to_fahrenheit"
    /\ ConvArg = <<100, 1>>
    /\ conv.val = <<212, 1>>
\* C22: in is_crc_valid, once i iterations of the loop have run, bits 23 down
\* to 24 - i of row are zero; so after the 16 iterations bits 23..8 are zero
\* and row == 0 says the same as: the lower 8 bits are zero.
C22_HighBitsCleared ==
    pc = "is_crc_valid" =>
        /\ row \div 2^(24 - i) = 0
        /\ i = CRC_ITERATIONS =>
            /\ row \div 256 = 0
            /\ CrcResult <=> (row % 256 = 0)

\* C22 witness: the loop has ended on a row whose bits 23..8 are zero and whose
\* lower 8 bits are not
C22_Witness ==
    /\ pc = "is_crc_valid"
    /\ i = CRC_ITERATIONS
    /\ row # 0
    /\ row \div 256 = 0
\* (a & 0x81) | (b & 0x81) for bytes a and b, written arithmetically
ResolutionOr(a, b) ==
    (IF a >= 128 \/ b >= 128 THEN 128 ELSE 0) + (IF a % 2 = 1 \/ b % 2 = 1 THEN 1 ELSE 0)

\* the value htu21d_read_user_register has returned to htu21d_set_resolution:
\* the register when both its transactions succeeded, else 0
RegisterRead ==
    IF Len(trace) = 2 /\ AllOk(trace) THEN userReg ELSE 0

\* C23: the byte htu21d_set_resolution is about to write is (v & 0x81) | (r & 0x81)
\* for the value v its register read returned and its argument r; the write
\* transaction carries that byte, and bits 6..1 of it are zero.
C23_WrittenByte ==
    op = "htu21d_set_resolution" =>
        /\ pc = "write_user_register_txn" => wval = ResolutionOr(RegisterRead, arg)
        /\ (pc = "done" /\ IsTxn(trace[Len(trace)])) =>
            /\ trace[Len(trace)].frame[4] = [op |-> "write", arg |-> wval]
            /\ OutsideResolution(wval) = 0
            /\ \E v \in 0..255 : wval = ResolutionOr(v, arg)

\* C23 witness: htu21d_set_resolution(0xAA) on a register with bit 0 set has
\* written 0x81
C23_Witness ==
    /\ Done("htu21d_set_resolution")
    /\ AllOk(trace)
    /\ arg = 170
    /\ wval = 129
    /\ userReg = 129
\* entries of a frame, written out
FrameEntry(o, a) == [op |-> o, arg |-> a]

\* start, address 0x80, the command byte, stop
TriggerFraming(command) ==
    <<FrameEntry("start", 0), FrameEntry("write", 128), FrameEntry("write", command),
      FrameEntry("stop", 0)>>

\* start, address 0x81, two acknowledged reads, one read not acknowledged, stop
ReadFraming ==
    <<FrameEntry("start", 0), FrameEntry("write", 129), FrameEntry("read", 0),
      FrameEntry("read", 0), FrameEntry("read", 1), FrameEntry("stop", 0)>>

\* C24: every transaction of read_value is either its first event, framed as
\* start, address byte 0x80, the command byte, stop, or its third event, framed
\* as start, address byte 0x81, two acknowledged byte reads, a third byte read
\* that is not acknowledged, stop.
C24_ReadValueFraming ==
    op = "read_value" =>
        \A k \in Txns :
            \/ k = 1 /\ trace[k].frame = TriggerFraming(arg)
            \/ k = 3 /\ trace[k].frame = ReadFraming

\* C24 witness: a humidity read_value has executed both its transactions
C24_Witness ==
    /\ Done("read_value")
    /\ arg = 245
    /\ Txns = {1, 3}
    /\ trace[3].result = "ESP_OK"
\* C25: whenever a call has returned, no command link that was created is
\* left undeleted.
C25_NoLinkLeftBehind ==
    pc \in {"done", "idle"} => links = 0
\* C26: when the transaction of htu21d_write_user_register or
\* htu21d_soft_reset returned anything but success, the status returned is not
\* HTU21D_ERR_OK and no delay was made.
C26_OkOnlyOnSuccess ==
    ((Done("htu21d_write_user_register") \/ Done("htu21d_soft_reset"))
            /\ 1 \in Txns /\ TxnResult # "ESP_OK")
        => /\ ret # HTU21D_ERR_OK
           /\ \A k \in 1..Len(trace) : ~IsDelay(trace[k])
\* the event did not succeed: a transaction with a failure result, or no
\* command link
Failed(e) == e = NoMemEv \/ (IsTxn(e) /\ e.result # "ESP_OK")

\* the command transaction of the register read succeeded
ReadCommandOk == IsTxn(trace[1]) /\ trace[1].result = "ESP_OK"

\* the register read of the completed htu21d_set_resolution failed, in its
\* command phase or in its read phase
ReadPhaseFailed == Failed(trace[1]) \/ (ReadCommandOk /\ Failed(trace[2]))

\* where the write of the completed htu21d_set_resolution stands in the trace
WriteIndex == IF ReadCommandOk THEN 3 ELSE 2

\* C27: when the register read of htu21d_set_resolution fails, the call goes
\* on: it attempts the write with the byte r & 0x81 (the read counting as 0),
\* and returns the status of that write alone, which can be HTU21D_ERR_OK.
C27_ReadFailureStillWrites ==
    (Done("htu21d_set_resolution") /\ ReadPhaseFailed) =>
        /\ Len(trace) = WriteIndex
        /\ wval = ResolutionBits(arg)
        /\ \/ trace[WriteIndex] = NoMemEv /\ ret = 5
           \/ /\ IsTxn(trace[WriteIndex])
              /\ Carries(trace[WriteIndex], 230)
              /\ Carries(trace[WriteIndex], wval)
              /\ ret = DocumentedStatus(trace[WriteIndex].result)

\* C27 witness: htu21d_set_resolution(0xFF) has returned HTU21D_ERR_OK and
\* written 0x81 after its read command timed out
C27_Witness ==
    /\ Done("htu21d_set_resolution")
    /\ arg = 255
    /\ Len(trace) = 2
    /\ trace[1].result = "ESP_ERR_TIMEOUT"
    /\ ret = 0
    /\ userReg = 129
====
